---- MODULE Spec2Model ----
(***************************************************************************)
(* find_events_and_lags of hydro_analysis_utils.py as a state machine.     *)
(*                                                                         *)
(* A run is one call.  The scalar arguments are drawn in Init, the frame   *)
(* df is drawn where line 22 reads it (no later line uses it), and every   *)
(* statement of the function body is one action.  Dates are day numbers    *)
(* (the index is daily), pd.Timedelta(days=k) is integer addition.  A cell *)
(* of the input frame is a number or NaN; a row records which of its two   *)
(* cells are NaN in the field na.  The quantile q is the rational q / QDen *)
(* and the threshold is kept multiplied by QDen, so that pandas' linear    *)
(* interpolation between two ranks is exact integer arithmetic.            *)
(***************************************************************************)
EXTENDS Integers, Sequences, FiniteSets, TLC

(* ------------------------------ bounds --------------------------------- *)
\* dates of the input frame are drawn from 1..MaxDay
MaxDay == 3
\* min_gap_days is drawn from 0..MaxGap
MaxGap == 1
\* window_days is drawn from -1..MaxWindow
MaxWindow == 1
\* q is drawn from {k / QDen : k \in 0..QDen+1}
QDen == 2
\* the numbers a precipitation cell and a discharge cell can hold
PrecipValues == {0, 1, 2}
DischargeValues == {1, 2}

VARIABLES q, min_gap_days, window_days, require_single_day,
          working, threshold, event_starts, skip_until, i,
          j, window, n_sig, events, pc, raised

vars == <<q, min_gap_days, window_days, require_single_day,
          working, threshold, event_starts, skip_until, i,
          j, window, n_sig, events, pc, raised>>

args == <<q, min_gap_days, window_days, require_single_day>>

(* --------------------------- input domain ------------------------------ *)
\* the rows a frame can hold on day d: the complete rows, and one row for
\* each way of missing a cell (a NaN cell is written 0 and named in na; the
\* other cell of such a row is never read)
Rows(d) ==
    {[date |-> d, precip |-> p, discharge |-> x, na |-> {}] :
        p \in PrecipValues, x \in DischargeValues}
    \cup {[date |-> d, precip |-> 0, discharge |-> 1, na |-> {"precip"}],
          [date |-> d, precip |-> 2, discharge |-> 0, na |-> {"discharge"}],
          [date |-> d, precip |-> 0, discharge |-> 0,
           na |-> {"precip", "discharge"}]}

\* frames indexed by Date: at most one row per day, in ascending date order
RECURSIVE Frames(_)
Frames(d) ==
    IF d > MaxDay THEN {<< >>}
    ELSE LET rest == Frames(d + 1)
         IN  rest \cup {<<r>> \o f : r \in Rows(d), f \in rest}

\* the value NaN of a float, and the float v / QDen
NaN == [nan |-> TRUE, val |-> 0]
Num(v) == [nan |-> FALSE, val |-> v]

\* None, and a set skip_until cursor
None == << >>
Some(d) == <<d>>

(* ----------------------------- line 22 --------------------------------- *)
\* df[[precip_col, 'Discharge (cfs)']].dropna()
DropNa(frame) == SelectSeq(frame, LAMBDA r : r.na = {})

(* ----------------------------- line 23 --------------------------------- *)
\* working[working[precip_col] > 0][precip_col], in ascending value order
RECURSIVE PrecipOf(_)
PrecipOf(frame) ==
    IF frame = << >> THEN << >>
    ELSE <<Head(frame).precip>> \o PrecipOf(Tail(frame))

PositivePrecip(frame) ==
    SortSeq(SelectSeq(PrecipOf(frame), LAMBDA p : p > 0), LAMBDA a, b : a < b)

\* Series.quantile validates q first: it must lie in [0, 1]
ValidPercentile(qn) == 0 <= qn /\ qn <= QDen

\* Series.quantile(q), linear interpolation between the two nearest ranks;
\* NaN for an empty series.  vals is sorted, the result is scaled by QDen.
Quantile(vals, qn) ==
    IF vals = << >> THEN NaN
    ELSE LET pos == (Len(vals) - 1) * qn
             lo  == pos \div QDen
             rem == pos % QDen
         IN  IF rem = 0 THEN Num(vals[lo + 1] * QDen)
             ELSE Num(vals[lo + 1] * QDen + rem * (vals[lo + 2] - vals[lo + 1]))

(* --------------------------- lines 28-33 ------------------------------- *)
\* skip_until is not None and date <= skip_until
SkippedStrict(date, su) == su # None /\ date < su[1]
Skipped(date, su) == su # None /\ date <= su[1]

\* rain >= threshold (False against NaN)
IsSigInverted(rain, thr) == ~thr.nan /\ rain * QDen <= thr.val
IsSigStrict(rain, thr) == ~thr.nan /\ rain * QDen > thr.val
IsSig(rain, thr) == ~thr.nan /\ rain * QDen >= thr.val

\* date + pd.Timedelta(days=min_gap_days)
NextSkipUntilNoGap(date, gap) == date
NextSkipUntil(date, gap) == date + gap

\* the whole loop of lines 28-33 from row k on: the event_starts it leaves
RECURSIVE ScanFrom(_, _, _, _, _, _)
ScanFrom(frame, k, su, starts, thr, gap) ==
    IF k > Len(frame) THEN starts
    ELSE IF Skipped(frame[k].date, su)
         THEN ScanFrom(frame, k + 1, su, starts, thr, gap)
    ELSE IF IsSig(frame[k].precip, thr)
         THEN ScanFrom(frame, k + 1, Some(NextSkipUntil(frame[k].date, gap)),
                       Append(starts, frame[k].date), thr, gap)
    ELSE ScanFrom(frame, k + 1, su, starts, thr, gap)

ScanAll(frame, thr, gap) == ScanFrom(frame, 1, None, << >>, thr, gap)

(* --------------------------- lines 38-49 ------------------------------- *)
\* working.loc[start:end]: label slice of a sorted index, both ends included
WindowOfOpen(frame, start, end) ==
    SelectSeq(frame, LAMBDA r : start < r.date /\ r.date <= end)
WindowOfWide(frame, start, end) ==
    SelectSeq(frame, LAMBDA r : start <= r.date /\ r.date <= end + 1)
WindowOf(frame, start, end) ==
    SelectSeq(frame, LAMBDA r : start <= r.date /\ r.date <= end)

\* (window[precip_col] >= threshold).sum()
RECURSIVE CountSig(_, _)
CountSig(w, thr) ==
    IF w = << >> THEN 0
    ELSE (IF IsSig(Head(w).precip, thr) THEN 1 ELSE 0) + CountSig(Tail(w), thr)

\* require_single_day and n_sig > 1
MultiDaySkipLax(rsd, n) == rsd /\ n > 2
MultiDaySkip(rsd, n) == rsd /\ n > 1

\* window['Discharge (cfs)'].idxmax(): the label of the first maximum
RECURSIVE IdxMaxFrom(_, _, _)
IdxMaxFrom(w, k, best) ==
    IF k > Len(w) THEN w[best].date
    ELSE IdxMaxFrom(w, k + 1, IF w[k].discharge > w[best].discharge THEN k ELSE best)

RECURSIVE IdxMaxLastFrom(_, _, _)
IdxMaxLastFrom(w, k, best) ==
    IF k > Len(w) THEN w[best].date
    ELSE IdxMaxLastFrom(w, k + 1, IF w[k].discharge >= w[best].discharge THEN k ELSE best)

IdxMaxLast(w) == IdxMaxLastFrom(w, 2, 1)
IdxMax(w) == IdxMaxFrom(w, 2, 1)

\* frame.loc[date]: the row labelled date (dates are unique)
Loc(frame, date) == frame[CHOOSE k \in 1..Len(frame) : frame[k].date = date]

(* ------------------------------- Init ---------------------------------- *)
Init ==
    /\ q \in 0..(QDen + 1)
    /\ min_gap_days \in 0..MaxGap
    /\ window_days \in (0 - 1)..MaxWindow
    /\ require_single_day \in BOOLEAN
    /\ working = << >>
    /\ threshold = NaN
    /\ event_starts = << >>
    /\ skip_until = None
    /\ i = 1
    /\ j = 1
    /\ window = << >>
    /\ n_sig = 0
    /\ events = << >>
    /\ pc = "dropna"
    /\ raised = "none"

(* ------------------------------ actions -------------------------------- *)
\* line 22, on the frame df the caller passes
DropNaStep ==
    /\ pc = "dropna"
    /\ \E df \in Frames(1) : working' = DropNa(df)
    /\ pc' = "quantile"
    /\ UNCHANGED <<args, threshold, event_starts, skip_until, i, j, window,
                   n_sig, events, raised>>

\* line 23, q outside [0, 1]: quantile raises ValueError
QuantileRaise ==
    /\ pc = "quantile"
    /\ ~ValidPercentile(q)
    /\ raised' = "ValueError"
    /\ pc' = "raised"
    /\ UNCHANGED <<args, working, threshold, event_starts, skip_until, i, j,
                   window, n_sig, events>>

\* line 23; lines 25-26 set event_starts = [] and skip_until = None
QuantileStep ==
    /\ pc = "quantile"
    /\ ValidPercentile(q)
    /\ threshold' = Quantile(PositivePrecip(working), q)
    /\ event_starts' = << >>
    /\ skip_until' = None
    /\ i' = 1
    /\ pc' = "scan"
    /\ UNCHANGED <<args, working, j, window, n_sig, events, raised>>

\* lines 29-30
ScanSkip ==
    /\ pc = "scan"
    /\ i <= Len(working)
    /\ Skipped(working[i].date, skip_until)
    /\ i' = i + 1
    /\ UNCHANGED <<args, working, threshold, event_starts, skip_until, j,
                   window, n_sig, events, pc, raised>>

\* lines 31-33
ScanStart ==
    /\ pc = "scan"
    /\ i <= Len(working)
    /\ ~Skipped(working[i].date, skip_until)
    /\ IsSig(working[i].precip, threshold)
    /\ event_starts' = Append(event_starts, working[i].date)
    /\ skip_until' = Some(NextSkipUntil(working[i].date, min_gap_days))
    /\ i' = i + 1
    /\ UNCHANGED <<args, working, threshold, j, window, n_sig, events, pc,
                   raised>>

\* line 31, condition false
ScanPass ==
    /\ pc = "scan"
    /\ i <= Len(working)
    /\ ~Skipped(working[i].date, skip_until)
    /\ ~IsSig(working[i].precip, threshold)
    /\ i' = i + 1
    /\ UNCHANGED <<args, working, threshold, event_starts, skip_until, j,
                   window, n_sig, events, pc, raised>>

\* line 28 exhausted; line 35 sets events = []
ScanEnd ==
    /\ pc = "scan"
    /\ i > Len(working)
    /\ events' = << >>
    /\ j' = 1
    /\ pc' = "events"
    /\ UNCHANGED <<args, working, threshold, event_starts, skip_until, i,
                   window, n_sig, raised>>

\* lines 38-41
EventEmptyWindow ==
    /\ pc = "events"
    /\ j <= Len(event_starts)
    /\ LET start == event_starts[j]
           end   == start + window_days
       IN  /\ window' = WindowOf(working, start, end)
           /\ window' = << >>
    /\ j' = j + 1
    /\ UNCHANGED <<args, working, threshold, event_starts, skip_until, i,
                   n_sig, events, pc, raised>>

\* lines 38-45
EventMultiDay ==
    /\ pc = "events"
    /\ j <= Len(event_starts)
    /\ LET start == event_starts[j]
           end   == start + window_days
       IN  /\ window' = WindowOf(working, start, end)
           /\ window' # << >>
           /\ n_sig' = CountSig(window', threshold)
           /\ MultiDaySkip(require_single_day, n_sig')
    /\ j' = j + 1
    /\ UNCHANGED <<args, working, threshold, event_starts, skip_until, i,
                   events, pc, raised>>

\* lines 38-58
EventEmit ==
    /\ pc = "events"
    /\ j <= Len(event_starts)
    /\ LET start == event_starts[j]
           end   == start + window_days
       IN  /\ window' = WindowOf(working, start, end)
           /\ window' # << >>
           /\ n_sig' = CountSig(window', threshold)
           /\ ~MultiDaySkip(require_single_day, n_sig')
           /\ LET peak_date == IdxMax(window')
                  lag_days  == peak_date - start
                  peak_q    == Loc(window', peak_date).discharge
              IN  events' = Append(events,
                      [event_date |-> start,
                       peak_date |-> peak_date,
                       lag_days |-> lag_days,
                       peak_discharge |-> peak_q,
                       rain_amount |-> Loc(working, start).precip,
                       n_sig_days_in_window |-> n_sig'])
    /\ j' = j + 1
    /\ UNCHANGED <<args, working, threshold, event_starts, skip_until, i,
                   pc, raised>>

\* lines 60-61
Return ==
    /\ pc = "events"
    /\ j > Len(event_starts)
    /\ pc' = "done"
    /\ UNCHANGED <<args, working, threshold, event_starts, skip_until, i, j,
                   window, n_sig, events, raised>>

Next ==
    \/ DropNaStep
    \/ QuantileRaise
    \/ QuantileStep
    \/ ScanSkip
    \/ ScanStart
    \/ ScanPass
    \/ ScanEnd
    \/ EventEmptyWindow
    \/ EventMultiDay
    \/ EventEmit
    \/ Return

Spec == Init /\ [][Next]_vars

(* ------------------------- auxiliary notions --------------------------- *)
Range(s) == {s[k] : k \in 1..Len(s)}
EventDates == {events[k].event_date : k \in 1..Len(events)}
Scanned == pc \in {"events", "done"}
\* the rows of working dated within [lo, hi]
RowsWithin(lo, hi) == {r \in Range(working) : lo <= r.date /\ r.date <= hi}
\* precipitation p reaches the threshold
Reaches(p) == ~threshold.nan /\ p * QDen >= threshold.val
\* thresholds (scaled by QDen) the precipitation values can be compared to
Thresholds == 0..(QDen * (CHOOSE p \in PrecipValues : \A x \in PrecipValues : x <= p) + 1)

\* the loop of lines 28-33 taken step by step agrees with ScanAll
ScanAgrees == Scanned => event_starts = ScanAll(working, threshold, min_gap_days)

(* ------------------------------- claims -------------------------------- *)
\* C1: any two consecutive Event Starts are more than min_gap_days apart,
\* and so are any two emitted events' event_date values.
C1_StartsSeparated ==
    /\ \A k \in 1..(Len(event_starts) - 1) :
          event_starts[k + 1] - event_starts[k] > min_gap_days
    /\ \A a, b \in 1..Len(events) :
          a < b => events[b].event_date - events[a].event_date > min_gap_days

C1_Witness ==
    /\ pc = "done"
    /\ min_gap_days >= 1
    /\ Len(events) >= 2
    /\ \E r \in Range(working) : Reaches(r.precip) /\ r.date \notin Range(event_starts)

\* C2: when require_single_day is true, every emitted Event has
\* n_sig_days_in_window = 1, and the only row of its window whose
\* precipitation reaches the threshold is the event day itself.
C2_SingleDay ==
    require_single_day =>
        \A k \in 1..Len(events) :
            LET e == events[k]
            IN  /\ e.n_sig_days_in_window = 1
                /\ {r.date : r \in {x \in RowsWithin(e.event_date,
                                                     e.event_date + window_days) :
                                       Reaches(x.precip)}} = {e.event_date}

C2_Witness ==
    /\ pc = "done"
    /\ require_single_day
    /\ window_days >= 1
    /\ Len(events) >= 1
    /\ Len(events) < Len(event_starts)

\* C3: for every emitted Event, event_date <= peak_date <= event_date +
\* window_days and lag_days = peak_date - event_date >= 0; the last day of
\* the window is eligible as the peak.
C3_LagBounds ==
    \A k \in 1..Len(events) :
        LET e == events[k]
        IN  /\ 0 <= e.lag_days
            /\ e.lag_days = e.peak_date - e.event_date
            /\ e.event_date <= e.peak_date
            /\ e.peak_date <= e.event_date + window_days

C3_Witness ==
    /\ pc = "done"
    /\ window_days >= 1
    /\ \E k \in 1..Len(events) :
          /\ events[k].peak_date = events[k].event_date + window_days
          /\ events[k].lag_days = window_days

\* C4: with no row left after dropping the rows with a missing value, the
\* function fails instead of going on to the scan and returning a result.
C4_EmptyInputRaises ==
    pc \in {"scan", "events", "done"} => working # << >>

\* C5: the function fails before the scan begins whenever q is outside the
\* open interval (0, 1) or min_gap_days < 0 or window_days < 0.
C5_InvalidParameterRaises ==
    pc \in {"scan", "events", "done"} =>
        /\ 0 < q /\ q < QDen
        /\ min_gap_days >= 0
        /\ window_days >= 0

\* C6: for fixed records and min_gap_days, a larger q gives a threshold that
\* is no smaller, and a threshold that is no smaller gives no more Event
\* Starts.
C6_Monotone ==
    pc = "done" =>
        /\ \A q2 \in q..QDen :
              LET t2 == Quantile(PositivePrecip(working), q2)
              IN  /\ t2.nan = threshold.nan
                  /\ t2.val >= threshold.val
                  /\ Len(ScanAll(working, t2, min_gap_days)) <= Len(event_starts)
        /\ ~threshold.nan =>
              \A t2 \in Thresholds :
                  t2 >= threshold.val =>
                      Len(ScanAll(working, Num(t2), min_gap_days)) <= Len(event_starts)

C6_Witness ==
    /\ pc = "done"
    /\ Len(event_starts) >= 2
    /\ \E q2 \in q..QDen :
          LET t2 == Quantile(PositivePrecip(working), q2)
          IN  /\ t2.val > threshold.val
              /\ Len(ScanAll(working, t2, min_gap_days)) < Len(event_starts)
              /\ Len(ScanAll(working, t2, min_gap_days)) >= 1

\* C7: a filtered row is an Event Start exactly when its precipitation
\* reaches the threshold and no earlier Event Start s has date <= s +
\* min_gap_days; the first row reaching the threshold is an Event Start, and
\* every emitted event_date has precipitation reaching the threshold.
C7_GreedySelection ==
    pc = "done" =>
        /\ \A r \in Range(working) :
              r.date \in Range(event_starts) <=>
                  /\ Reaches(r.precip)
                  /\ ~\E s \in Range(event_starts) :
                        s < r.date /\ r.date <= s + min_gap_days
        /\ \A r \in Range(working) :
              (Reaches(r.precip)
                 /\ \A x \in Range(working) : x.date < r.date => ~Reaches(x.precip))
              => event_starts # << >> /\ event_starts[1] = r.date
        /\ \A k \in 1..Len(events) :
              /\ Reaches(events[k].rain_amount)
              /\ \E r \in Range(working) :
                    r.date = events[k].event_date /\ r.precip = events[k].rain_amount

C7_Witness ==
    /\ pc = "done"
    /\ Len(events) >= 1
    /\ \E r \in Range(working) :
          /\ r.precip * QDen > threshold.val
          /\ r.date \notin Range(event_starts)
    /\ \E r \in Range(working) :
          /\ r.precip * QDen = threshold.val
          /\ r.date \in EventDates

\* C8: for every emitted Event, peak_discharge is the maximum discharge
\* over the filtered rows of [event_date, event_date + window_days] and
\* peak_date is the earliest date of that window attaining it.
C8_FirstMaximum ==
    \A k \in 1..Len(events) :
        LET e == events[k]
            W == RowsWithin(e.event_date, e.event_date + window_days)
        IN  /\ \A r \in W : r.discharge <= e.peak_discharge
            /\ \E r \in W : r.date = e.peak_date /\ r.discharge = e.peak_discharge
            /\ \A r \in W : r.discharge = e.peak_discharge => e.peak_date <= r.date

C8_Witness ==
    /\ pc = "done"
    /\ \E k \in 1..Len(events) :
          LET e == events[k]
              W == RowsWithin(e.event_date, e.event_date + window_days)
          IN  \E r \in W : r.date > e.peak_date /\ r.discharge = e.peak_discharge
    /\ \E k \in 1..Len(events) :
          LET e == events[k]
              W == RowsWithin(e.event_date, e.event_date + window_days)
          IN  /\ e.peak_date > e.event_date
              /\ \E r \in W : r.discharge < e.peak_discharge

\* C9: for window_days >= 0 the window of every Event Start holds the row
\* of the start itself, so it is never empty and n_sig >= 1; with
\* require_single_day false the Event Table has one row per Event Start, in
\* strictly increasing event_date order.
C9_WindowHoldsStart ==
    window_days >= 0 =>
        /\ (pc \in {"events", "done"} /\ j > 1) =>
              /\ \E r \in Range(window) : r.date = event_starts[j - 1]
              /\ n_sig >= 1
        /\ \A k \in 1..Len(events) : events[k].n_sig_days_in_window >= 1
        /\ (pc = "done" /\ ~require_single_day) =>
              /\ Len(events) = Len(event_starts)
              /\ \A k \in 1..Len(events) : events[k].event_date = event_starts[k]
              /\ \A k \in 1..(Len(events) - 1) :
                    events[k].event_date < events[k + 1].event_date

C9_Witness ==
    /\ pc = "done"
    /\ window_days >= 0
    /\ ~require_single_day
    /\ Len(events) >= 2
    /\ \E k \in 1..Len(events) : events[k].n_sig_days_in_window >= 2

\* C10: an Event Start s that is discarded for holding more than one
\* threshold-reaching day in its window still suppresses every row dated in
\* (s, s + min_gap_days]: no such row is an event_date of the Event Table.
C10_DiscardedStartSuppresses ==
    pc \in {"events", "done"} =>
        \A s \in Range(event_starts) :
            \A r \in RowsWithin(s + 1, s + min_gap_days) :
                /\ r.date \notin Range(event_starts)
                /\ r.date \notin EventDates

C10_Witness ==
    /\ pc = "done"
    /\ require_single_day
    /\ Len(events) >= 1
    /\ \E s \in Range(event_starts) :
          /\ s \notin EventDates
          /\ \E r \in Range(working) :
                s < r.date /\ r.date <= s + min_gap_days /\ Reaches(r.precip)

====
